---- MODULE Spec2Model ----
(***************************************************************************)
(* The NLU module of a bot: the hooks onBotMount and onBotUnmount of        *)
(* src/unnamed/part_000, which make, register and unregister the engine of *)
(* the bot, and ScopedEngine (init, sync, checkSyncNeeded, extract /       *)
(* _extract) with the intent selection function                            *)
(* findMostConfidentPredictionMeanStd of                                   *)
(* src/modules/nlu/src/backend/engine.ts.                                  *)
(*                                                                         *)
(* Every call is an async function: it runs until it awaits, and resumes   *)
(* in a later step when what it awaits has settled. No call waits for      *)
(* another one: several calls of onBotMount, of sync, of checkSyncNeeded   *)
(* and of extract can be suspended at the same time, and their steps       *)
(* interleave. Each call in flight has a frame that holds its position     *)
(* and its locals.                                                         *)
(*                                                                         *)
(* Confidences and thresholds are counted in hundredths (0.7 is 70).       *)
(***************************************************************************)
EXTENDS Integers, Sequences, FiniteSets, TLC

VARIABLES
    \* ---- storage (the bot's ghost) and the clock
    intents,        \* storage.getIntents(): the stored intent definitions
    models,         \* names of the persisted models, [ts, hash] for `${ts}__${hash}.bin`
    now,            \* Date.now(); the clock has moved on whenever a model was stored
    configTreshold, \* config.confidenceTreshold of the bot
    \* ---- the engines, one for each call of onBotMount (its local `scoped`)
    confidenceTreshold, \* ScopedEngine.confidenceTreshold (hundredths)
    currentModelId,     \* intentClassifier.currentModelId
    slotModel,          \* the training set the slot extractor was last trained on
    initPc,             \* position of the engine's init()
    \* ---- the frames of checkSyncNeeded() and sync(): the one init() calls on
    \*      its engine, and those of the calls the engine's users make
    syncPc,         \* position of the call
    callee,         \* the engine a user's call was made on
    syncIntents,    \* the local `intents` of checkSyncNeeded / sync
    modelHash,      \* the local modelHash of sync
    modelName,      \* the local intentModelName of _trainModel
    needsSync,      \* the value the checkSyncNeeded() has returned
    syncLog,        \* backend calls made by the sync, in order
    idBefore,       \* currentModelId when the sync was called
    alone,          \* no other sync of the engine was in flight since the sync
                    \* was called
    \* ---- the frames of extract() and of its _extract attempts
    exPc,           \* position of extract() and of its current _extract attempt
    exOn,           \* the engine the request was made on
    ret,            \* the local ret of _extract
    exLocals,       \* locals of _extract and _extractEntities between awaits
    tries,          \* attempts bluebird-retry has started for the request
    failedAt,       \* the step of the current attempt that raised, "none" if none
    exLog,          \* what the current attempt has seen of its backends, in order
    overlap,        \* the syncs that were suspended when the request was made
                    \* and are still running
    \* ---- the registry of the engines and the hooks of the bot (part_000)
    nluByBot,       \* nluByBot[botId]: the engine registered for the bot, if any
    mountPc,        \* position of each call of onBotMount
    sinceUnmount,   \* an onBotUnmount has completed and no onBotMount was called since
    \* ---- findMostConfidentPredictionMeanStd applied on its own
    selIntents,     \* findMostConfidentPredictionMeanStd: argument intents
    selThreshold,   \* argument fixedThreshold (hundredths)
    selStd,         \* argument std
    selResult       \* its return value, Pending before the call

selVars == <<selIntents, selThreshold, selStd, selResult>>
hookVars == <<nluByBot, mountPc, sinceUnmount>>

----------------------------------------------------------------------------
(* Bounds of the checked inputs. *)

\* longest prediction list handed to the selection function
MaxLen == 3

\* the labels of the predictions of a list, in list order: a list takes the
\* first labels of one of these orders (the selection reads no label, so other
\* labellings of the same confidences are selected alike)
LabelOrders == {<<"greet", "bye", "hello", "thanks", "help">>,
                <<"a", "b", "c", "d", "e">>}

\* confidences of the predictions, in hundredths; three equal confidences of
\* 0.05 or 0.4 have a double-precision mean above them, of 0.35 or 0.7 one below
Confs == {5, 30, 32, 35, 40, 70, 90}

\* fixed thresholds, in hundredths
Thresholds == {35, 70, 99}

\* numbers of standard deviations (the parameter std; 3 is its default)
Multipliers == {1, 3}

\* the calls of onBotMount that are followed, in the order they are made; the
\* engine a call constructs is known by the call
MountOrder == <<"m1", "m2">>
Mounts == {MountOrder[i] : i \in 1..Len(MountOrder)}

\* the frames for the calls of checkSyncNeeded and sync the users of an
\* engine make: as many of these calls are in flight at a time
ApiOrder == <<"a1", "a2">>
ApiCalls == {ApiOrder[i] : i \in 1..Len(ApiOrder)}

\* the frames for the calls of extract: as many requests are in flight at a time
RequestOrder == <<"r1", "r2">>
Requests == {RequestOrder[i] : i \in 1..Len(RequestOrder)}

\* the frames of checkSyncNeeded and sync: init's calls have the frame of
\* their engine
SyncFrames == Mounts \cup ApiCalls

Pending == [name |-> "pending", confidence |-> 0]

RECURSIVE First(_, _)
\* the first frame of the order that is among the free ones, "none" if none is
First(order, free) ==
    IF order = <<>> THEN "none"
    ELSE IF Head(order) \in free THEN Head(order)
    ELSE First(Tail(order), free)

----------------------------------------------------------------------------
(* engine.ts 155-158 *)
\* (variant: a sentinel of confidence 0)
NonePredictionZero == [confidence |-> 0, name |-> "none"]

NonePrediction == [confidence |-> 100, name |-> "none"]

RECURSIVE SumConfidence(_)
\* _.meanBy's sum of the confidences (its numerator)
SumConfidence(list) ==
    IF list = <<>> THEN 0
    ELSE Head(list).confidence + SumConfidence(Tail(list))

RECURSIVE SumSquares(_, _, _)
\* intents.reduce((a, c) => a + Math.pow(c.confidence - mean, 2), 0), with every
\* deviation c.confidence - mean = (n * c.confidence - total) / n scaled by n
SumSquares(list, n, total) ==
    IF list = <<>> THEN 0
    ELSE (n * Head(list).confidence - total) * (n * Head(list).confidence - total)
         + SumSquares(Tail(list), n, total)

\* _.meanBy(intents, 'confidence') (line 181) adds the doubles in list order
\* and divides the sum by n. Over n equal confidences c the mean is c, but the
\* double sum c + c + c is rounded: divided by 3 it comes out one unit in the
\* last place below c for the confidences of MeanBelow(3) and one above c for
\* those of MeanAbove(3) (0.35 + 0.35 + 0.35 gives 1.0499999999999998, a mean
\* of 0.3499999999999999; 0.4 + 0.4 + 0.4 gives 1.2000000000000002, a mean of
\* 0.4000000000000001). For one, two and four equal confidences the sum and
\* the quotient are exact. (Confidences of whole hundredths.)
MeanBelow(n) == IF n = 3 THEN {35, 37, 39, 70, 74, 78, 95, 99} ELSE {}

MeanAbove(n) == IF n = 3 THEN {5, 9, 10, 18, 19, 20, 36, 38, 40, 72, 76, 80, 97} ELSE {}

\* x.confidence >= stdErr * std + mean (line 186), where
\*   mean   = total / n
\*   stdErr = sqrt(sq / n^2 / n) / sqrt(n) = sqrt(sq) / n^2   (sq = SumSquares)
\* Both sides multiplied by n^2:  n * (n * confidence - total) >= std * sqrt(sq),
\* which for std >= 0 is decided by the sign of the left side and the squares.
\* (variant: a confidence above the cutoff, not on it)
AtLeastCutoffStrict(confidence, n, total, sq, std) ==
    LET lhs == n * (n * confidence - total)
    IN  lhs >= 0 /\ lhs * lhs > std * std * sq

\* The doubles of lines 181-186 decide as the exact values do, except where a
\* confidence sits exactly on the cutoff. In lists of up to four predictions
\* with std 1 or 3 that is the case of equal confidences only (sq = 0), and
\* there the rounding of the mean decides:
\*   the mean is exact:       every deviation is 0, the cutoff is the confidence;
\*   the mean is one above:   the cutoff is at least the mean, above the confidence;
\*   the mean is one below:   every deviation is one unit u, stdErr is u / sqrt(n)
\*                            and the cutoff mean + (std / sqrt(n)) * u rounds to
\*                            the confidence while std / sqrt(n) < 3 / 2, and
\*                            above it from there on.
AtLeastCutoff(confidence, n, total, sq, std) ==
    LET lhs == n * (n * confidence - total)
    IN  IF sq = 0
        THEN IF confidence \in MeanAbove(n) THEN FALSE
             ELSE IF confidence \in MeanBelow(n) THEN 4 * std * std < 9 * n
             ELSE TRUE
        ELSE lhs >= 0 /\ lhs * lhs >= std * std * sq

\* intents.find(x => x.confidence >= fixedThreshold) (line 175): the index of
\* the first such prediction, 0 when find gives undefined
\* (variant: the most confident prediction in place of the first)
bestMostConfident(list, fixedThreshold) ==
    IF \E i \in 1..Len(list) : list[i].confidence >= fixedThreshold
    THEN CHOOSE i \in 1..Len(list) :
            /\ \A j \in 1..Len(list) : list[j].confidence <= list[i].confidence
            /\ \A j \in 1..(i - 1) : list[j].confidence < list[i].confidence
    ELSE 0

best(list, fixedThreshold) ==
    IF \E i \in 1..Len(list) : list[i].confidence >= fixedThreshold
    THEN CHOOSE i \in 1..Len(list) :
            /\ list[i].confidence >= fixedThreshold
            /\ \A j \in 1..(i - 1) : ~(list[j].confidence >= fixedThreshold)
    ELSE 0

\* intents.find(x => x.confidence >= stdErr * std + mean) (lines 181-186): the
\* index of the first such prediction, 0 when find gives undefined
dominant(list, std) ==
    LET n == Len(list)
        total == SumConfidence(list)
        sq == SumSquares(list, n, total)
        Dominant(i) == AtLeastCutoff(list[i].confidence, n, total, sq, std)
    IN  IF \E i \in 1..n : Dominant(i)
        THEN CHOOSE i \in 1..n : Dominant(i) /\ \A j \in 1..(i - 1) : ~Dominant(j)
        ELSE 0

(* engine.ts 166-189 *)
findMostConfidentPredictionMeanStd(list, fixedThreshold, std) ==
    IF Len(list) = 0 THEN NonePrediction
    ELSE IF best(list, fixedThreshold) # 0 THEN list[best(list, fixedThreshold)]
    ELSE IF dominant(list, std) # 0 THEN list[dominant(list, std)]
    ELSE NonePrediction

----------------------------------------------------------------------------
(* The stored intent definitions and the model fingerprint. *)

GreetDef == [name |-> "greet", utterances |-> <<"hi", "hello">>, slots |-> <<>>]
ByeDef == [name |-> "bye", utterances |-> <<"bye [john](name)">>, slots |-> <<"name">>]

\* the intent sets the authoring surface may store: none, or both intents
IntentSets == {<<>>, <<GreetDef, ByeDef>>}

\* JSON.stringify of one intent definition, as a digit
IntentCode(def) == IF def = GreetDef THEN 1 ELSE 2

RECURSIVE _getIntentsHash(_)
\* md5 of JSON.stringify(intents): a digest that depends on the definitions
\* and on their order, and differs on the different lists of IntentSets
\* (<<>> gives 1, <<GreetDef, ByeDef>> gives 14)
_getIntentsHash(list) ==
    IF list = <<>> THEN 1
    ELSE 3 * _getIntentsHash(SubSeq(list, 1, Len(list) - 1)) + IntentCode(list[Len(list)])

\* currentModelId of a classifier that has neither trained nor loaded a model
Undefined == 0

\* storage.modelExists(modelHash): a model persisted under a name ending in
\* __{modelHash}.bin
modelExists(hash) == \E m \in models : m.hash = hash

\* intentClassifier.loadModel(buffer, modelHash): a load that succeeds leaves
\* the classifier on the model of the buffer, known by the modelHash it was
\* given; a load that raises leaves the classifier as it was
loadModel(current, hash, ok) == IF ok THEN hash ELSE current

\* intentClassifier.train(intents, modelHash): a training that succeeds leaves
\* the classifier on the new model, known by the modelHash it was given; a
\* training that raises leaves the classifier as it was
train(current, hash, ok) == IF ok THEN hash ELSE current

RECURSIVE TrainingSet(_)
\* flatMap(intents, intent => intent.utterances.map(utterance =>
\*   generateTrainingSequence(utterance, intent.slots, intent.name)))
TrainingSet(list) ==
    IF list = <<>> THEN <<>>
    ELSE [i \in 1..Len(Head(list).utterances) |->
            [utterance |-> Head(list).utterances[i],
             slots |-> Head(list).slots,
             name |-> Head(list).name]]
         \o TrainingSet(Tail(list))

----------------------------------------------------------------------------
(* onBotMount, onBotUnmount, init *)

\* config.confidenceTreshold when it is NaN, and when the bot's configuration
\* has no such key (undefined)
NaN == 1000
Absent == 1001

\* the configured confidence thresholds (hundredths): not a number, absent,
\* below 0, the two ends of [0, 1], and above 1
ConfigValues == {NaN, Absent, -5, 0, 35, 100, 150}

\* the configurations of the bot whose engine is followed through the calls
\* of its users
BotConfigValues == {NaN, 35}

\* engine.ts 22
DefaultTreshold == 70

\* isNaN(x): x converted to a number is NaN (Number(undefined) is NaN)
isNaN(x) == x \in {NaN, Absent}

\* engine.ts 50-54
\* (variant: without the test of values above 1)
ClampTresholdNoUpper(configured) ==
    IF isNaN(configured) \/ configured < 0
    THEN DefaultTreshold
    ELSE configured

ClampTreshold(configured) ==
    IF isNaN(configured) \/ configured < 0 \/ configured > 100
    THEN DefaultTreshold
    ELSE configured

\* engine.ts 90-95: the value checkSyncNeeded returns
\* (variant: without the test of intents.length)
checkSyncNeededResultNoGuard(list, modelId) == modelId # _getIntentsHash(list)

checkSyncNeededResult(list, modelId) ==
    IF Len(list) # 0 THEN modelId # _getIntentsHash(list) ELSE FALSE

\* intentModelName before _trainModel has set it
NoName == [ts |-> 0, hash |-> Undefined]

\* one entry of syncLog
Called(op, ts, hash) == [op |-> op, ts |-> ts, hash |-> hash]

syncVars == <<syncPc, callee, syncIntents, modelHash, modelName, needsSync,
              syncLog, idBefore, alone>>
storeVars == <<intents, models, now, configTreshold>>
engineVars == <<confidenceTreshold, currentModelId, slotModel, initPc>>
exVars == <<exPc, exOn, ret, exLocals, tries, failedAt, exLog, overlap>>

\* nluByBot[botId] when the bot has no entry
NoEngine == "none"

\* the engine (`this`) of the checkSyncNeeded or sync of a frame
EngineOf(f) == IF f \in Mounts THEN f ELSE callee[f]

\* the positions of a sync that was called and whose caller has not resumed
SyncPositions ==
    {"getIntents", "modelExists", "getModel", "loadReturned", "loadRaised", "train",
     "persist", "trainReturned", "slotTrain", "returned", "raised"}

\* the positions where a sync is suspended in an await
SyncSuspended == SyncPositions \ {"returned", "raised"}

\* engine.ts 49-56: init up to the await of checkSyncNeeded, which has called
\* getIntents
InitBegin(m) ==
    /\ confidenceTreshold' = [confidenceTreshold EXCEPT ![m] = ClampTreshold(configTreshold)]
    /\ initPc' = [initPc EXCEPT ![m] = "check"]
    /\ syncPc' = [syncPc EXCEPT ![m] = "csGetIntents"]

\* part_000 31-32: onBotMount is called and awaits getModuleConfigForBot
MountBegin(m) ==
    /\ m = First(MountOrder, {k \in Mounts : mountPc[k] = "new"})
    /\ mountPc' = [mountPc EXCEPT ![m] = "config"]
    /\ sinceUnmount' = FALSE
    /\ UNCHANGED nluByBot
    /\ UNCHANGED <<storeVars, engineVars, syncVars, exVars, selVars>>

\* part_000 32-34 and engine.ts 36-56: the configuration arrives, the engine is
\* constructed (a classifier without a model, a slot extractor without a
\* training) and its init runs up to the getIntents of checkSyncNeeded; or
\* getModuleConfigForBot raises and so does the hook
MountConfig(m) ==
    /\ mountPc[m] = "config"
    /\ \/ /\ InitBegin(m)
          /\ mountPc' = [mountPc EXCEPT ![m] = "init"]
          /\ UNCHANGED <<currentModelId, slotModel>>
          /\ UNCHANGED <<callee, syncIntents, modelHash, modelName, needsSync, syncLog,
                         idBefore, alone>>
       \/ /\ mountPc' = [mountPc EXCEPT ![m] = "raised"]
          /\ UNCHANGED <<engineVars, syncVars>>
    /\ UNCHANGED <<nluByBot, sinceUnmount>>
    /\ UNCHANGED <<storeVars, exVars, selVars>>

\* part_000 34-35: whether the hook goes on to nluByBot[botId] = scoped when
\* init has settled
\* (variant: the rejection of init is swallowed)
RegistersWhatever(pc) == pc \in {"done", "raised"}

Registers(pc) == pc = "done"

\* part_000 34-36: init has settled; the hook registers the engine and returns,
\* or raises with init
MountAfterInit(m) ==
    /\ mountPc[m] = "init"
    /\ initPc[m] \in {"done", "raised"}
    /\ IF Registers(initPc[m])
       THEN /\ nluByBot' = m
            /\ mountPc' = [mountPc EXCEPT ![m] = "returned"]
       ELSE /\ mountPc' = [mountPc EXCEPT ![m] = "raised"]
            /\ UNCHANGED nluByBot
    /\ UNCHANGED sinceUnmount
    /\ UNCHANGED <<storeVars, engineVars, syncVars, exVars, selVars>>

\* part_000 38-40: onBotUnmount, which has no await
Unmount ==
    /\ nluByBot' = NoEngine
    /\ sinceUnmount' = TRUE
    /\ UNCHANGED mountPc
    /\ UNCHANGED <<storeVars, engineVars, syncVars, exVars, selVars>>

----------------------------------------------------------------------------
(* checkSyncNeeded, sync *)

\* a user of the registered engine calls checkSyncNeeded: engine.ts 87-88 up
\* to the await of getIntents
ApiCheckSyncNeeded(f) ==
    /\ nluByBot # NoEngine
    /\ f = First(ApiOrder, {g \in ApiCalls : syncPc[g] = "idle"})
    /\ callee' = [callee EXCEPT ![f] = nluByBot]
    /\ syncPc' = [syncPc EXCEPT ![f] = "csGetIntents"]
    /\ UNCHANGED <<syncIntents, modelHash, modelName, needsSync, syncLog, idBefore, alone>>
    /\ UNCHANGED <<storeVars, engineVars, exVars, selVars, hookVars>>

\* engine.ts 88-95: getIntents resolves and checkSyncNeeded returns, or
\* getIntents raises and so does checkSyncNeeded
CheckSyncNeeded(f) ==
    /\ syncPc[f] = "csGetIntents"
    /\ \E ok \in BOOLEAN :
          IF ok
          THEN /\ syncIntents' = [syncIntents EXCEPT ![f] = intents]
               /\ needsSync' = [needsSync EXCEPT ![f] =
                     checkSyncNeededResult(intents, currentModelId[EngineOf(f)])]
               /\ syncPc' = [syncPc EXCEPT ![f] = "csReturned"]
          ELSE /\ syncPc' = [syncPc EXCEPT ![f] = "csRaised"]
               /\ UNCHANGED <<syncIntents, needsSync>>
    /\ UNCHANGED <<callee, modelHash, modelName, syncLog, idBefore, alone>>
    /\ UNCHANGED <<storeVars, engineVars, exVars, selVars, hookVars>>

\* the call has ended and its caller has resumed: its frame is gone
Settled(f) ==
    /\ syncPc' = [syncPc EXCEPT ![f] = "idle"]
    /\ callee' = IF f \in ApiCalls THEN [callee EXCEPT ![f] = NoEngine] ELSE callee
    /\ syncIntents' = [syncIntents EXCEPT ![f] = <<>>]
    /\ modelHash' = [modelHash EXCEPT ![f] = Undefined]
    /\ modelName' = [modelName EXCEPT ![f] = NoName]
    /\ needsSync' = [needsSync EXCEPT ![f] = FALSE]
    /\ syncLog' = [syncLog EXCEPT ![f] = <<>>]
    /\ idBefore' = [idBefore EXCEPT ![f] = Undefined]
    /\ alone' = [alone EXCEPT ![f] = TRUE]

\* the call of sync on engine e: engine.ts 61-62 up to the await of getIntents
CallSync(f, e) ==
    /\ syncPc' = [syncPc EXCEPT ![f] = "getIntents"]
    /\ syncLog' = [syncLog EXCEPT ![f] = <<>>]
    /\ idBefore' = [idBefore EXCEPT ![f] = currentModelId[e]]
    /\ modelName' = [modelName EXCEPT ![f] = NoName]
    /\ alone' = [g \in SyncFrames |->
                    IF g = f
                    THEN ~ \E h \in SyncFrames \ {f} :
                              syncPc[h] \in SyncPositions /\ EngineOf(h) = e
                    ELSE IF syncPc[g] \in SyncPositions /\ EngineOf(g) = e
                    THEN FALSE
                    ELSE alone[g]]

\* engine.ts 56-59: init resumes after checkSyncNeeded; it calls sync, or
\* returns, or raises with checkSyncNeeded
InitAfterCheck(m) ==
    /\ initPc[m] = "check"
    /\ \/ /\ syncPc[m] = "csReturned"
          /\ needsSync[m]
          /\ initPc' = [initPc EXCEPT ![m] = "sync"]
          /\ CallSync(m, m)
          /\ UNCHANGED <<callee, syncIntents, modelHash, needsSync>>
       \/ /\ syncPc[m] = "csReturned"
          /\ ~needsSync[m]
          /\ initPc' = [initPc EXCEPT ![m] = "done"]
          /\ Settled(m)
       \/ /\ syncPc[m] = "csRaised"
          /\ initPc' = [initPc EXCEPT ![m] = "raised"]
          /\ Settled(m)
    /\ UNCHANGED <<confidenceTreshold, currentModelId, slotModel>>
    /\ UNCHANGED <<storeVars, exVars, selVars, hookVars>>

\* the user's checkSyncNeeded settles
ApiAfterCheck(f) ==
    /\ f \in ApiCalls
    /\ syncPc[f] \in {"csReturned", "csRaised"}
    /\ Settled(f)
    /\ UNCHANGED <<storeVars, engineVars, exVars, selVars, hookVars>>

\* a user of the registered engine calls sync
ApiSync(f) ==
    /\ nluByBot # NoEngine
    /\ f = First(ApiOrder, {g \in ApiCalls : syncPc[g] = "idle"})
    /\ callee' = [callee EXCEPT ![f] = nluByBot]
    /\ CallSync(f, nluByBot)
    /\ UNCHANGED <<syncIntents, modelHash, needsSync>>
    /\ UNCHANGED <<storeVars, engineVars, exVars, selVars, hookVars>>

\* engine.ts 62-66: getIntents resolves, the hash is taken, modelExists is awaited
SyncGetIntents(f) ==
    /\ syncPc[f] = "getIntents"
    /\ \E ok \in BOOLEAN :
          IF ok
          THEN /\ syncIntents' = [syncIntents EXCEPT ![f] = intents]
               /\ modelHash' = [modelHash EXCEPT ![f] = _getIntentsHash(intents)]
               /\ syncLog' = [syncLog EXCEPT ![f] =
                     Append(@, Called("modelExists", 0, _getIntentsHash(intents)))]
               /\ syncPc' = [syncPc EXCEPT ![f] = "modelExists"]
          ELSE /\ syncPc' = [syncPc EXCEPT ![f] = "raised"]
               /\ UNCHANGED <<syncIntents, modelHash, syncLog>>
    /\ UNCHANGED <<callee, modelName, needsSync, idBefore, alone>>
    /\ UNCHANGED <<storeVars, engineVars, exVars, selVars, hookVars>>

\* engine.ts 66: where sync goes when modelExists has resolved
\* (variant: the answer of modelExists is ignored)
SyncBranchAlwaysTrain(exists) == "train"

SyncBranch(exists) == IF exists THEN "getModel" ELSE "train"

\* engine.ts 66-69 and 99-100, 106-107: modelExists resolves; sync awaits
\* _loadModel, which awaits getModelAsBuffer, or _trainModel, which awaits
\* intentClassifier.train
SyncModelExists(f) ==
    /\ syncPc[f] = "modelExists"
    /\ \E ok \in BOOLEAN :
          IF ok
          THEN /\ syncPc' = [syncPc EXCEPT ![f] = SyncBranch(modelExists(modelHash[f]))]
               /\ syncLog' = [syncLog EXCEPT ![f] = @ \o
                    << Called(IF modelExists(modelHash[f]) THEN "exists" ELSE "missing",
                              0, modelHash[f]),
                       IF SyncBranch(modelExists(modelHash[f])) = "getModel"
                       THEN Called("getModelAsBuffer", 0, modelHash[f])
                       ELSE Called("train", 0, modelHash[f]) >>]
          ELSE /\ syncPc' = [syncPc EXCEPT ![f] = "raised"]
               /\ UNCHANGED syncLog
    /\ UNCHANGED <<callee, syncIntents, modelHash, modelName, needsSync, idBefore, alone>>
    /\ UNCHANGED <<storeVars, engineVars, exVars, selVars, hookVars>>

\* engine.ts 101: the model id _loadModel gives the classifier with the buffer
\* (variant: the buffer is loaded without its id)
LoadedAsNothing(hash) == Undefined

LoadedAs(hash) == hash

\* engine.ts 100-102: inside _loadModel getModelAsBuffer resolves and
\* intentClassifier.loadModel is called with the buffer: the model is loaded
\* and _loadModel returns, or loadModel raises and so does _loadModel (no try
\* around it); or getModelAsBuffer raises and so does _loadModel, without a
\* call of loadModel. sync, which awaits _loadModel, resumes in a later step.
SyncLoadModel(f) ==
    /\ syncPc[f] = "getModel"
    /\ \E ok \in BOOLEAN, loaded \in BOOLEAN :
          IF ok
          THEN /\ currentModelId' = [currentModelId EXCEPT ![EngineOf(f)] =
                     loadModel(@, LoadedAs(modelHash[f]), loaded)]
               /\ syncLog' = [syncLog EXCEPT ![f] =
                     Append(@, Called("loadModel", 0, modelHash[f]))]
               /\ syncPc' = [syncPc EXCEPT ![f] =
                     IF loaded THEN "loadReturned" ELSE "loadRaised"]
          ELSE /\ syncPc' = [syncPc EXCEPT ![f] = "loadRaised"]
               /\ UNCHANGED <<currentModelId, syncLog>>
    /\ UNCHANGED <<callee, syncIntents, modelHash, modelName, needsSync, idBefore, alone>>
    /\ UNCHANGED <<storeVars, confidenceTreshold, slotModel, initPc, exVars, selVars,
                   hookVars>>

\* engine.ts 109: `${Date.now()}__${modelHash}.bin`
\* (variant: a name without the hash)
intentModelNameNoHash(ts, hash) == [ts |-> ts, hash |-> Undefined]

intentModelName(ts, hash) == [ts |-> ts, hash |-> hash]

\* engine.ts 112-114: where sync is when a step of _trainModel has raised: the
\* catch logs the error and _trainModel returns
\* (variant: the catch rethrows)
TrainCatchRethrows == "raised"

TrainCatch == "trainReturned"

\* engine.ts 107-110: inside _trainModel intentClassifier.train resolves, the
\* model file is read, named after the clock and the hash, and persistModel is
\* awaited; or train (or the read) raises and the catch of _trainModel logs it
SyncTrain(f) ==
    /\ syncPc[f] = "train"
    /\ \E ok \in BOOLEAN, readOk \in BOOLEAN :
          /\ currentModelId' = [currentModelId EXCEPT ![EngineOf(f)] =
                train(@, modelHash[f], ok)]
          /\ IF ok /\ readOk
             THEN /\ modelName' = [modelName EXCEPT ![f] = intentModelName(now, modelHash[f])]
                  /\ syncLog' = [syncLog EXCEPT ![f] = Append(@,
                        Called("persistModel", intentModelName(now, modelHash[f]).ts,
                                               intentModelName(now, modelHash[f]).hash))]
                  /\ syncPc' = [syncPc EXCEPT ![f] = "persist"]
             ELSE /\ syncLog' = [syncLog EXCEPT ![f] = Append(@,
                        Called(IF ok THEN "readRaised" ELSE "trainRaised", 0, modelHash[f]))]
                  /\ syncPc' = [syncPc EXCEPT ![f] = TrainCatch]
                  /\ UNCHANGED modelName
    /\ UNCHANGED <<callee, syncIntents, modelHash, needsSync, idBefore, alone>>
    /\ UNCHANGED <<storeVars, confidenceTreshold, slotModel, initPc, exVars, selVars,
                   hookVars>>

\* engine.ts 110-114: inside _trainModel persistModel resolves, or raises into
\* the catch; either way _trainModel returns. sync, which awaits _trainModel,
\* resumes in a later step.
SyncPersist(f) ==
    /\ syncPc[f] = "persist"
    /\ \E ok \in BOOLEAN :
          IF ok
          THEN /\ models' = models \cup {modelName[f]}
               /\ now' = now + 1
               /\ syncPc' = [syncPc EXCEPT ![f] = "trainReturned"]
               /\ UNCHANGED syncLog
          ELSE /\ syncLog' = [syncLog EXCEPT ![f] =
                     Append(@, Called("persistRaised", 0, modelHash[f]))]
               /\ syncPc' = [syncPc EXCEPT ![f] = TrainCatch]
               /\ UNCHANGED <<models, now>>
    /\ UNCHANGED <<callee, syncIntents, modelHash, modelName, needsSync, idBefore, alone>>
    /\ UNCHANGED <<intents, configTreshold, engineVars, exVars, selVars, hookVars>>

\* engine.ts 77: slotExtractor.train is called with the training set and awaited
CallSlotTrain == Called("slotTrain", 0, 0)

\* engine.ts 78-80: where sync goes when the building of the training set or
\* the training of the slot extractor raises
\* (variant: no try around the slot training)
SlotCatchRethrows == "raised"

SlotCatch == "returned"

\* engine.ts 67-77: sync resumes when _loadModel or _trainModel has settled.
\* It raises with _loadModel; or it builds the training set of the slot
\* extractor and awaits slotExtractor.train; or the building raises
\* (generateTrainingSequence) and the catch logs it
SyncAfterModel(f) ==
    /\ syncPc[f] \in {"loadReturned", "loadRaised", "trainReturned"}
    /\ IF syncPc[f] = "loadRaised"
       THEN /\ syncPc' = [syncPc EXCEPT ![f] = "raised"]
            /\ UNCHANGED syncLog
       ELSE \E built \in BOOLEAN :
               IF built
               THEN /\ syncLog' = [syncLog EXCEPT ![f] = Append(@, CallSlotTrain)]
                    /\ syncPc' = [syncPc EXCEPT ![f] = "slotTrain"]
               ELSE /\ syncLog' = [syncLog EXCEPT ![f] =
                          Append(@, Called("buildRaised", 0, 0))]
                    /\ syncPc' = [syncPc EXCEPT ![f] = SlotCatch]
    /\ UNCHANGED <<callee, syncIntents, modelHash, modelName, needsSync, idBefore, alone>>
    /\ UNCHANGED <<storeVars, engineVars, exVars, selVars, hookVars>>

\* engine.ts 77-81: slotExtractor.train resolves, or raises and is logged
SyncSlotTrain(f) ==
    /\ syncPc[f] = "slotTrain"
    /\ \E ok \in BOOLEAN :
          IF ok
          THEN /\ slotModel' = [slotModel EXCEPT ![EngineOf(f)] = TrainingSet(syncIntents[f])]
               /\ syncPc' = [syncPc EXCEPT ![f] = "returned"]
               /\ UNCHANGED syncLog
          ELSE /\ syncLog' = [syncLog EXCEPT ![f] =
                     Append(@, Called("slotTrainRaised", 0, 0))]
               /\ syncPc' = [syncPc EXCEPT ![f] = SlotCatch]
               /\ UNCHANGED slotModel
    /\ UNCHANGED <<callee, syncIntents, modelHash, modelName, needsSync, idBefore, alone>>
    /\ UNCHANGED <<storeVars, confidenceTreshold, currentModelId, initPc, exVars, selVars,
                   hookVars>>

\* engine.ts 57-59: init resumes after sync and returns, or raises with it
InitAfterSync(m) ==
    /\ initPc[m] = "sync"
    /\ syncPc[m] \in {"returned", "raised"}
    /\ initPc' = [initPc EXCEPT ![m] = IF syncPc[m] = "returned" THEN "done" ELSE "raised"]
    /\ Settled(m)
    /\ UNCHANGED <<confidenceTreshold, currentModelId, slotModel>>
    /\ UNCHANGED <<storeVars, exVars, selVars, hookVars>>

\* the user's sync settles
ApiAfterSync(f) ==
    /\ f \in ApiCalls
    /\ syncPc[f] \in {"returned", "raised"}
    /\ Settled(f)
    /\ overlap' = [r \in Requests |-> overlap[r] \ {f}]
    /\ UNCHANGED <<exPc, exOn, ret, exLocals, tries, failedAt, exLog>>
    /\ UNCHANGED <<storeVars, engineVars, selVars, hookVars>>

\* the authoring surface stores another intent set
EditIntents ==
    /\ \E list \in IntentSets : list # intents /\ intents' = list
    /\ UNCHANGED <<models, now, configTreshold, engineVars, syncVars, exVars, selVars, hookVars>>

----------------------------------------------------------------------------
(* extract and _extract *)

\* engine.ts 33
MaxTries == 3

\* what the backends answer
Language == "en"
EnginePredictions ==
    { <<[name |-> "greet", confidence |-> 90], [name |-> "bye", confidence |-> 40]>> }
CustomEntityDefs == <<[name |-> "color", type |-> "list"], [name |-> "zip", type |-> "pattern"]>>
SystemEntities == <<[name |-> "time", type |-> "system"]>>

\* customEntityDefs.filter(ent => ent.type === type), one entity found for each
ExtractCustom(defs, type) == SelectSeq(defs, LAMBDA ent : ent.type = type)

\* storage.getIntent(name): the stored definition of that name, <<>> if none
GetIntent(name) == SelectSeq(intents, LAMBDA def : def.name = name)

\* slotExtractor.extract(text, intentDef, entities): the slots of the definition
ExtractSlots(intentDef) == IF intentDef = <<>> THEN <<>> ELSE intentDef[1].slots

\* ret.field = value
Assign(obj, fld, value) == (fld :> value) @@ obj

\* engine.ts 134
\* (variant: errored starts false)
InitialRetNotErrored == [errored |-> FALSE]

InitialRet == [errored |-> TRUE]

NoLocals == [patternEntities |-> <<>>, listEntities |-> <<>>, entities |-> <<>>,
             intentDef |-> <<>>]

\* engine.ts 139-140: the selected intent with its matcher
SelectedIntent(predictions, treshold) ==
    LET intent == findMostConfidentPredictionMeanStd(predictions, treshold, 3)
    IN  [name |-> intent.name, confidence |-> intent.confidence, matches |-> intent.name]

\* engine.ts 135, 147-151: a step that raises inside the try is caught (and
\* logged) and the finally block returns ret: the attempt resolves
\* (variant: no try around the steps)
OnRaiseUncaught == "rejected"

OnRaise == "resolved"

\* engine.ts 147-149: the catch of _extract logs a warning and does nothing
\* else: the classifier holds the model it held
\* (variant: the catch drops the model of the classifier)
AfterCatchUnloaded(modelId) == Undefined

AfterCatch(modelId) == modelId

\* one entry of exLog: a backend is called, has returned, has raised
BackendCall(op) == [op |-> op, ev |-> "call"]
BackendReturn(op) == [op |-> op, ev |-> "return"]
BackendRaise(op) == [op |-> op, ev |-> "raise"]

\* engine.ts 147-151: the catch and the finally of _extract
Caught(r) ==
    /\ exPc' = [exPc EXCEPT ![r] = OnRaise]
    /\ exLocals' = [exLocals EXCEPT ![r] = NoLocals]
    /\ currentModelId' = [currentModelId EXCEPT ![exOn[r]] = AfterCatch(@)]

\* a step of _extract raises: the awaited backend op, or (op returned) the
\* synchronous code that follows it
Raise(r, step, settled) ==
    /\ Caught(r)
    /\ failedAt' = [failedAt EXCEPT ![r] = step]
    /\ exLog' = [exLog EXCEPT ![r] = Append(@, settled)]

\* a step of _extractEntities raises: the awaited backend op, or (op returned)
\* the synchronous code that follows it. _extractEntities is rejected; _extract,
\* which awaits it, resumes in a later step
RaiseInEntities(r, settled) ==
    /\ exPc' = [exPc EXCEPT ![r] = "entitiesRaised"]
    /\ failedAt' = [failedAt EXCEPT ![r] = "entities"]
    /\ exLocals' = [exLocals EXCEPT ![r] = NoLocals]
    /\ exLog' = [exLog EXCEPT ![r] = Append(@, settled)]

\* engine.ts 84, bluebird-retry with max_tries: a resolved attempt settles the
\* request, a rejected one is followed by another attempt while fewer than
\* max_tries were made and by the rejection of the request after that
retry(outcome, made) ==
    IF outcome = "resolved" THEN "done"
    ELSE IF made < MaxTries THEN "attempt" ELSE "failed"

\* engine.ts 83-85, 133-152: extract and _extract take no lock, and test
\* nothing of a running sync before they go on
\* (variant: a request waits while a sync of the engine is suspended)
WaitsForSyncToEnd(e) ==
    \E f \in SyncFrames : syncPc[f] \in SyncSuspended /\ EngineOf(f) = e

WaitsForSync(e) == FALSE

\* engine.ts 134-137: _extract is entered and awaits langDetector.identify
BeginAttempt(r) ==
    /\ ret' = [ret EXCEPT ![r] = InitialRet]
    /\ exLocals' = [exLocals EXCEPT ![r] = NoLocals]
    /\ tries' = [tries EXCEPT ![r] = @ + 1]
    /\ failedAt' = [failedAt EXCEPT ![r] = "none"]
    /\ exPc' = [exPc EXCEPT ![r] = "language"]
    /\ exLog' = [exLog EXCEPT ![r] = <<BackendCall("identify")>>]

\* engine.ts 83-85: extract is called on the registered engine; retry starts
\* the first attempt at once
Extract(r) ==
    /\ nluByBot # NoEngine
    /\ r = First(RequestOrder, {q \in Requests : exPc[q] = "idle"})
    /\ ~WaitsForSync(nluByBot)
    /\ exOn' = [exOn EXCEPT ![r] = nluByBot]
    /\ BeginAttempt(r)
    /\ overlap' = [overlap EXCEPT ![r] =
          {f \in SyncFrames : syncPc[f] \in SyncSuspended /\ EngineOf(f) = nluByBot}]
    /\ UNCHANGED <<storeVars, engineVars, syncVars, selVars, hookVars>>

\* engine.ts 137-138: identify resolves and intentClassifier.predict is awaited
Identify(r) ==
    /\ exPc[r] = "language"
    /\ \E ok \in BOOLEAN :
          IF ok
          THEN /\ ret' = [ret EXCEPT ![r] = Assign(@, "language", Language)]
               /\ exPc' = [exPc EXCEPT ![r] = "intents"]
               /\ exLog' = [exLog EXCEPT ![r] = @ \o <<BackendReturn("identify"),
                                                       BackendCall("predict")>>]
               /\ UNCHANGED <<failedAt, exLocals, currentModelId>>
          ELSE /\ Raise(r, "language", BackendRaise("identify"))
               /\ UNCHANGED ret
    /\ UNCHANGED <<exOn, tries, overlap>>
    /\ UNCHANGED <<storeVars, confidenceTreshold, slotModel, initPc, syncVars, selVars,
                   hookVars>>

\* engine.ts 125: the backends _extractEntities calls first
\* (variant: the custom entities and the system entities are asked for together)
EntityCallsTogether == <<"getCustomEntities", "systemEntities">>

EntityCalls == <<"getCustomEntities">>

\* engine.ts 138-141, 125: predict resolves, the intent is selected and given
\* its matcher, and _extractEntities is called and awaits getCustomEntities
Predict(r) ==
    /\ exPc[r] = "intents"
    /\ ~WaitsForSync(exOn[r])
    /\ \E ok \in BOOLEAN, matcherOk \in BOOLEAN, predictions \in EnginePredictions :
          IF ~ok
          THEN /\ Raise(r, "intents", BackendRaise("predict"))
               /\ UNCHANGED ret
          ELSE IF ~matcherOk
          THEN /\ ret' = [ret EXCEPT ![r] = Assign(@, "intents", predictions)]
               /\ Raise(r, "intent", BackendReturn("predict"))
          ELSE /\ ret' = [ret EXCEPT ![r] =
                     Assign(Assign(@, "intents", predictions), "intent",
                            SelectedIntent(predictions, confidenceTreshold[exOn[r]]))]
               /\ exPc' = [exPc EXCEPT ![r] = "customEntities"]
               /\ exLog' = [exLog EXCEPT ![r] = @ \o <<BackendReturn("predict")>>
                                 \o [i \in 1..Len(EntityCalls) |->
                                        BackendCall(EntityCalls[i])]]
               /\ UNCHANGED <<failedAt, exLocals, currentModelId>>
    /\ UNCHANGED <<exOn, tries, overlap>>
    /\ UNCHANGED <<storeVars, confidenceTreshold, slotModel, initPc, syncVars, selVars,
                   hookVars>>

\* engine.ts 125-128: inside _extractEntities getCustomEntities resolves, the
\* pattern and list entities are extracted and systemEntityExtractor.extract
\* is awaited; or the extraction of the pattern or list entities raises; or
\* getCustomEntities raises
GetCustomEntities(r) ==
    /\ exPc[r] = "customEntities"
    /\ \E ok \in BOOLEAN, extractOk \in BOOLEAN :
          IF ~ok
          THEN RaiseInEntities(r, BackendRaise("getCustomEntities"))
          ELSE IF ~extractOk
          THEN RaiseInEntities(r, BackendReturn("getCustomEntities"))
          ELSE /\ exLocals' = [exLocals EXCEPT
                     ![r].patternEntities = ExtractCustom(CustomEntityDefs, "pattern"),
                     ![r].listEntities = ExtractCustom(CustomEntityDefs, "list")]
               /\ exPc' = [exPc EXCEPT ![r] = "systemEntities"]
               /\ exLog' = [exLog EXCEPT ![r] = @ \o <<BackendReturn("getCustomEntities"),
                                                       BackendCall("systemEntities")>>]
               /\ UNCHANGED failedAt
    /\ UNCHANGED <<exOn, ret, tries, overlap>>
    /\ UNCHANGED <<storeVars, engineVars, syncVars, selVars, hookVars>>

\* engine.ts 128-130: inside _extractEntities the system entities arrive and
\* the three lists are joined and returned; or the extractor raises. _extract,
\* which awaits _extractEntities, resumes in a later step
ExtractSystemEntities(r) ==
    /\ exPc[r] = "systemEntities"
    /\ \E ok \in BOOLEAN :
          IF ok
          THEN /\ exLocals' = [exLocals EXCEPT
                     ![r].entities = SystemEntities \o exLocals[r].patternEntities
                                         \o exLocals[r].listEntities,
                     ![r].patternEntities = <<>>,
                     ![r].listEntities = <<>>]
               /\ exPc' = [exPc EXCEPT ![r] = "entities"]
               /\ exLog' = [exLog EXCEPT ![r] = Append(@, BackendReturn("systemEntities"))]
               /\ UNCHANGED failedAt
          ELSE RaiseInEntities(r, BackendRaise("systemEntities"))
    /\ UNCHANGED <<exOn, ret, tries, overlap>>
    /\ UNCHANGED <<storeVars, engineVars, syncVars, selVars, hookVars>>

\* engine.ts 141-143, 147-151: _extract resumes when _extractEntities has
\* settled: it assigns ret.entities and awaits storage.getIntent, or it
\* catches what _extractEntities raised
AfterExtractEntities(r) ==
    /\ exPc[r] \in {"entities", "entitiesRaised"}
    /\ IF exPc[r] = "entities"
       THEN /\ ret' = [ret EXCEPT ![r] = Assign(@, "entities", exLocals[r].entities)]
            /\ exLocals' = [exLocals EXCEPT ![r].entities = <<>>]
            /\ exPc' = [exPc EXCEPT ![r] = "getIntent"]
            /\ exLog' = [exLog EXCEPT ![r] = Append(@, BackendCall("getIntent"))]
            /\ UNCHANGED currentModelId
       ELSE /\ Caught(r)
            /\ UNCHANGED <<ret, exLog>>
    /\ UNCHANGED <<exOn, tries, failedAt, overlap>>
    /\ UNCHANGED <<storeVars, confidenceTreshold, slotModel, initPc, syncVars, selVars,
                   hookVars>>

\* engine.ts 143-144: getIntent resolves and slotExtractor.extract is awaited
LookupIntent(r) ==
    /\ exPc[r] = "getIntent"
    /\ \E ok \in BOOLEAN :
          IF ok
          THEN /\ exLocals' = [exLocals EXCEPT ![r].intentDef = GetIntent(ret[r].intent.name)]
               /\ exPc' = [exPc EXCEPT ![r] = "slots"]
               /\ exLog' = [exLog EXCEPT ![r] = @ \o <<BackendReturn("getIntent"),
                                                       BackendCall("extractSlots")>>]
               /\ UNCHANGED <<failedAt, currentModelId>>
          ELSE Raise(r, "lookup", BackendRaise("getIntent"))
    /\ UNCHANGED <<exOn, ret, tries, overlap>>
    /\ UNCHANGED <<storeVars, confidenceTreshold, slotModel, initPc, syncVars, selVars,
                   hookVars>>

\* engine.ts 144-151: the slots arrive, errored is cleared and ret is returned
ExtractSlotsStep(r) ==
    /\ exPc[r] = "slots"
    /\ \E ok \in BOOLEAN :
          IF ok
          THEN /\ ret' = [ret EXCEPT ![r] =
                     Assign(Assign(@, "slots", ExtractSlots(exLocals[r].intentDef)),
                            "errored", FALSE)]
               /\ exPc' = [exPc EXCEPT ![r] = "resolved"]
               /\ exLocals' = [exLocals EXCEPT ![r] = NoLocals]
               /\ exLog' = [exLog EXCEPT ![r] = Append(@, BackendReturn("extractSlots"))]
               /\ UNCHANGED <<failedAt, currentModelId>>
          ELSE /\ Raise(r, "slots", BackendRaise("extractSlots"))
               /\ UNCHANGED ret
    /\ UNCHANGED <<exOn, tries, overlap>>
    /\ UNCHANGED <<storeVars, confidenceTreshold, slotModel, initPc, syncVars, selVars,
                   hookVars>>

\* engine.ts 84: retry sees the attempt settle; it starts another attempt or
\* hands the outcome to the caller of extract, and the frame of the request
\* is gone
AttemptSettled(r) ==
    /\ exPc[r] \in {"resolved", "rejected"}
    /\ IF retry(exPc[r], tries[r]) = "attempt"
       THEN /\ BeginAttempt(r)
            /\ UNCHANGED <<exOn, overlap>>
       ELSE /\ exPc' = [exPc EXCEPT ![r] = "idle"]
            /\ exOn' = [exOn EXCEPT ![r] = NoEngine]
            /\ ret' = [ret EXCEPT ![r] = InitialRet]
            /\ exLocals' = [exLocals EXCEPT ![r] = NoLocals]
            /\ tries' = [tries EXCEPT ![r] = 0]
            /\ failedAt' = [failedAt EXCEPT ![r] = "none"]
            /\ exLog' = [exLog EXCEPT ![r] = <<>>]
            /\ overlap' = [overlap EXCEPT ![r] = {}]
    /\ UNCHANGED <<storeVars, engineVars, syncVars, selVars, hookVars>>

----------------------------------------------------------------------------
\* the prediction lists handed to the selection function: up to MaxLen
\* predictions with distinct labels, of every confidence of Confs
PredictionLists ==
    UNION {{[i \in 1..n |-> [name |-> order[i], confidence |-> confs[i]]] :
               order \in LabelOrders, confs \in [1..n -> Confs]} : n \in 0..MaxLen}

InitSelect ==
    /\ selIntents \in PredictionLists
    /\ selThreshold \in Thresholds
    /\ selStd \in Multipliers
    /\ selResult = Pending

ApplySelect ==
    /\ selResult = Pending
    /\ selResult' = findMostConfidentPredictionMeanStd(selIntents, selThreshold, selStd)
    /\ UNCHANGED <<selIntents, selThreshold, selStd>>
    /\ UNCHANGED <<storeVars, engineVars, syncVars, exVars, hookVars>>

vars == <<intents, models, now, configTreshold, confidenceTreshold, currentModelId,
          slotModel, initPc, syncPc, callee, syncIntents, modelHash, modelName,
          needsSync, syncLog, idBefore, alone, exPc, exOn, ret, exLocals, tries,
          failedAt, exLog, overlap,
          selIntents, selThreshold, selStd, selResult,
          nluByBot, mountPc, sinceUnmount>>

\* the module before any bot is mounted (part_000 15: nluByBot = {}), over a
\* store that holds some intent set and maybe its model, persisted by an
\* earlier run; no engine is constructed yet (an engine starts with the
\* threshold of engine.ts 22, a classifier without a model and a slot
\* extractor without a training, engine.ts 36-47), and no call is in flight
EngineInit ==
    /\ intents \in IntentSets
    /\ models \in {{}, {[ts |-> 0, hash |-> _getIntentsHash(intents)]}}
    /\ now = 1
    /\ configTreshold \in ConfigValues
    /\ confidenceTreshold = [m \in Mounts |-> DefaultTreshold]
    /\ currentModelId = [m \in Mounts |-> Undefined]
    /\ slotModel = [m \in Mounts |-> <<>>]
    /\ initPc = [m \in Mounts |-> "new"]
    /\ syncPc = [f \in SyncFrames |-> "idle"]
    /\ callee = [f \in ApiCalls |-> NoEngine]
    /\ syncIntents = [f \in SyncFrames |-> <<>>]
    /\ modelHash = [f \in SyncFrames |-> Undefined]
    /\ modelName = [f \in SyncFrames |-> NoName]
    /\ needsSync = [f \in SyncFrames |-> FALSE]
    /\ syncLog = [f \in SyncFrames |-> <<>>]
    /\ idBefore = [f \in SyncFrames |-> Undefined]
    /\ alone = [f \in SyncFrames |-> TRUE]
    /\ exPc = [r \in Requests |-> "idle"]
    /\ exOn = [r \in Requests |-> NoEngine]
    /\ ret = [r \in Requests |-> InitialRet]
    /\ exLocals = [r \in Requests |-> NoLocals]
    /\ tries = [r \in Requests |-> 0]
    /\ failedAt = [r \in Requests |-> "none"]
    /\ exLog = [r \in Requests |-> <<>>]
    /\ overlap = [r \in Requests |-> {}]
    /\ nluByBot = NoEngine
    /\ mountPc = [m \in Mounts |-> "new"]
    /\ sinceUnmount = FALSE

\* no call of the selection function on its own
NoSelect ==
    /\ selIntents = <<>>
    /\ selThreshold = DefaultTreshold
    /\ selStd = 3
    /\ selResult = Pending

Init ==
    /\ EngineInit
    /\ NoSelect

\* the hooks, the engines they make, and the calls of the users of the
\* registered engine
Next ==
    \/ \E m \in Mounts : MountBegin(m)
    \/ \E m \in Mounts : MountConfig(m)
    \/ \E m \in Mounts : MountAfterInit(m)
    \/ Unmount
    \/ \E m \in Mounts : InitAfterCheck(m)
    \/ \E m \in Mounts : InitAfterSync(m)
    \/ \E f \in ApiCalls : ApiCheckSyncNeeded(f)
    \/ \E f \in ApiCalls : ApiAfterCheck(f)
    \/ \E f \in ApiCalls : ApiSync(f)
    \/ \E f \in ApiCalls : ApiAfterSync(f)
    \/ \E f \in SyncFrames : CheckSyncNeeded(f)
    \/ \E f \in SyncFrames : SyncGetIntents(f)
    \/ \E f \in SyncFrames : SyncModelExists(f)
    \/ \E f \in SyncFrames : SyncLoadModel(f)
    \/ \E f \in SyncFrames : SyncTrain(f)
    \/ \E f \in SyncFrames : SyncPersist(f)
    \/ \E f \in SyncFrames : SyncAfterModel(f)
    \/ \E f \in SyncFrames : SyncSlotTrain(f)
    \/ EditIntents
    \/ \E r \in Requests : Extract(r)
    \/ \E r \in Requests : Identify(r)
    \/ \E r \in Requests : Predict(r)
    \/ \E r \in Requests : GetCustomEntities(r)
    \/ \E r \in Requests : ExtractSystemEntities(r)
    \/ \E r \in Requests : AfterExtractEntities(r)
    \/ \E r \in Requests : LookupIntent(r)
    \/ \E r \in Requests : ExtractSlotsStep(r)
    \/ \E r \in Requests : AttemptSettled(r)

Spec == Init /\ [][Next]_vars

\* The specifications below follow parts of Spec: each takes the steps of
\* Next of some of the calls.

\* SpecMount: the calls of onBotMount and onBotUnmount and the init of the
\* engines they make, over every configured threshold
NextMount ==
    \/ \E m \in Mounts : MountBegin(m)
    \/ \E m \in Mounts : MountConfig(m)
    \/ \E m \in Mounts : MountAfterInit(m)
    \/ Unmount
    \/ \E m \in Mounts : CheckSyncNeeded(m)
    \/ \E m \in Mounts : InitAfterCheck(m)
    \/ \E m \in Mounts : SyncGetIntents(m)
    \/ \E m \in Mounts : SyncModelExists(m)
    \/ \E m \in Mounts : SyncLoadModel(m)
    \/ \E m \in Mounts : SyncTrain(m)
    \/ \E m \in Mounts : SyncPersist(m)
    \/ \E m \in Mounts : SyncAfterModel(m)
    \/ \E m \in Mounts : SyncSlotTrain(m)
    \/ \E m \in Mounts : InitAfterSync(m)

SpecMount == Init /\ [][NextMount]_vars

\* the bot is mounted once, with one of the configurations of BotConfigValues
InitBot ==
    /\ Init
    /\ configTreshold \in BotConfigValues

\* the first call of onBotMount
FirstMount == {MountOrder[1]}

\* SpecSync: the engine of the first onBotMount and the calls of sync its
\* users make, while the intents are edited
SyncScope == FirstMount \cup ApiCalls

NextSync ==
    \/ \E m \in FirstMount : MountBegin(m)
    \/ \E m \in FirstMount : MountConfig(m)
    \/ \E m \in FirstMount : MountAfterInit(m)
    \/ \E m \in FirstMount : InitAfterCheck(m)
    \/ \E m \in FirstMount : InitAfterSync(m)
    \/ \E f \in ApiCalls : ApiSync(f)
    \/ \E f \in ApiCalls : ApiAfterSync(f)
    \/ \E f \in FirstMount : CheckSyncNeeded(f)
    \/ \E f \in SyncScope : SyncGetIntents(f)
    \/ \E f \in SyncScope : SyncModelExists(f)
    \/ \E f \in SyncScope : SyncLoadModel(f)
    \/ \E f \in SyncScope : SyncTrain(f)
    \/ \E f \in SyncScope : SyncPersist(f)
    \/ \E f \in SyncScope : SyncAfterModel(f)
    \/ \E f \in SyncScope : SyncSlotTrain(f)
    \/ EditIntents

\* the syncs do not read the threshold: the bot leaves it out of its configuration
InitSync ==
    /\ Init
    /\ configTreshold = Absent

SpecSync == InitSync /\ [][NextSync]_vars

\* SpecCheck: the engine of the first onBotMount and the calls of
\* checkSyncNeeded its users make, while a user syncs and the intents are edited
FirstApi == {ApiOrder[1]}

NextCheck ==
    \/ \E m \in FirstMount : MountBegin(m)
    \/ \E m \in FirstMount : MountConfig(m)
    \/ \E m \in FirstMount : MountAfterInit(m)
    \/ \E m \in FirstMount : InitAfterCheck(m)
    \/ \E m \in FirstMount : InitAfterSync(m)
    \/ \E f \in ApiCalls : ApiCheckSyncNeeded(f)
    \/ \E f \in ApiCalls : ApiAfterCheck(f)
    \/ \E f \in FirstApi : ApiSync(f)
    \/ \E f \in FirstApi : ApiAfterSync(f)
    \/ \E f \in SyncScope : CheckSyncNeeded(f)
    \/ \E f \in SyncScope : SyncGetIntents(f)
    \/ \E f \in SyncScope : SyncModelExists(f)
    \/ \E f \in SyncScope : SyncLoadModel(f)
    \/ \E f \in SyncScope : SyncTrain(f)
    \/ \E f \in SyncScope : SyncPersist(f)
    \/ \E f \in SyncScope : SyncAfterModel(f)
    \/ \E f \in SyncScope : SyncSlotTrain(f)
    \/ EditIntents

SpecCheck == InitBot /\ [][NextCheck]_vars

\* SpecExtract: the engine of the first onBotMount and the requests made on it
NextExtract ==
    \/ \E m \in FirstMount : MountBegin(m)
    \/ \E m \in FirstMount : MountConfig(m)
    \/ \E m \in FirstMount : MountAfterInit(m)
    \/ \E m \in FirstMount : InitAfterCheck(m)
    \/ \E m \in FirstMount : InitAfterSync(m)
    \/ \E f \in FirstMount : CheckSyncNeeded(f)
    \/ \E f \in FirstMount : SyncGetIntents(f)
    \/ \E f \in FirstMount : SyncModelExists(f)
    \/ \E f \in FirstMount : SyncLoadModel(f)
    \/ \E f \in FirstMount : SyncTrain(f)
    \/ \E f \in FirstMount : SyncPersist(f)
    \/ \E f \in FirstMount : SyncAfterModel(f)
    \/ \E f \in FirstMount : SyncSlotTrain(f)
    \/ \E r \in Requests : Extract(r)
    \/ \E r \in Requests : Identify(r)
    \/ \E r \in Requests : Predict(r)
    \/ \E r \in Requests : GetCustomEntities(r)
    \/ \E r \in Requests : ExtractSystemEntities(r)
    \/ \E r \in Requests : AfterExtractEntities(r)
    \/ \E r \in Requests : LookupIntent(r)
    \/ \E r \in Requests : ExtractSlotsStep(r)
    \/ \E r \in Requests : AttemptSettled(r)

SpecExtract == InitBot /\ [][NextExtract]_vars

\* SpecRace: the engine of the first onBotMount, a sync and a request of its
\* users at a time, the intents edited and the bot unmounted meanwhile
FirstRequest == {RequestOrder[1]}
RaceScope == FirstMount \cup FirstApi

NextRace ==
    \/ \E m \in FirstMount : MountBegin(m)
    \/ \E m \in FirstMount : MountConfig(m)
    \/ \E m \in FirstMount : MountAfterInit(m)
    \/ Unmount
    \/ \E m \in FirstMount : InitAfterCheck(m)
    \/ \E m \in FirstMount : InitAfterSync(m)
    \/ \E f \in FirstApi : ApiSync(f)
    \/ \E f \in FirstApi : ApiAfterSync(f)
    \/ \E f \in RaceScope : CheckSyncNeeded(f)
    \/ \E f \in RaceScope : SyncGetIntents(f)
    \/ \E f \in RaceScope : SyncModelExists(f)
    \/ \E f \in RaceScope : SyncLoadModel(f)
    \/ \E f \in RaceScope : SyncTrain(f)
    \/ \E f \in RaceScope : SyncPersist(f)
    \/ \E f \in RaceScope : SyncAfterModel(f)
    \/ \E f \in RaceScope : SyncSlotTrain(f)
    \/ EditIntents
    \/ \E r \in FirstRequest : Extract(r)
    \/ \E r \in FirstRequest : Identify(r)
    \/ \E r \in FirstRequest : Predict(r)
    \/ \E r \in FirstRequest : GetCustomEntities(r)
    \/ \E r \in FirstRequest : ExtractSystemEntities(r)
    \/ \E r \in FirstRequest : AfterExtractEntities(r)
    \/ \E r \in FirstRequest : LookupIntent(r)
    \/ \E r \in FirstRequest : ExtractSlotsStep(r)
    \/ \E r \in FirstRequest : AttemptSettled(r)

SpecRace == InitBot /\ [][NextRace]_vars

\* SpecSelect: the selection function applied on its own to every input of
\* the bounds
InitSelectAll ==
    /\ InitSelect
    /\ EngineInit
    /\ intents = <<>>
    /\ models = {}
    /\ configTreshold = NaN

SpecSelect == InitSelectAll /\ [][ApplySelect]_vars

----------------------------------------------------------------------------
(* Properties *)

\* the operations the sync of frame f has logged
Logged(f, op) == \E i \in 1..Len(syncLog[f]) : syncLog[f][i].op = op

\* the last entry of the log of the sync of frame f is op
LoggedLast(f, op) == Len(syncLog[f]) > 0 /\ syncLog[f][Len(syncLog[f])].op = op

\* C1: an attempt of _extract never raises: whichever step raises, the
\* attempt ends by returning ret, so the promise retry waits for is never
\* rejected.
C1_ExtractNeverRaises == \A r \in Requests : exPc[r] # "rejected"

\* an attempt whose intent lookup raised has returned its result object
C1_Witness ==
    \E r \in Requests :
        /\ exPc[r] = "resolved"
        /\ failedAt[r] = "lookup"
        /\ ret[r].errored
        /\ "entities" \in DOMAIN ret[r]

\* the fields of ret assigned by the steps before the given one
FieldsBefore(step) ==
    CASE step = "language" -> {}
      [] step = "intents" -> {"language"}
      [] step = "intent" -> {"language", "intents"}
      [] step = "entities" -> {"language", "intents", "intent"}
      [] step \in {"lookup", "slots"} -> {"language", "intents", "intent", "entities"}
      [] step = "none" -> {"language", "intents", "intent", "entities", "slots"}

\* C2: the result of an attempt whose first raising step is k has errored =
\* true and exactly the fields assigned before k (the intent lookup belongs
\* to the slots step); errored = false exactly when no step raised, and then
\* language, intents, intent, entities and slots are all there.
C2_PartialResult ==
    \A r \in Requests :
        exPc[r] = "resolved" =>
            /\ DOMAIN ret[r] = {"errored"} \cup FieldsBefore(failedAt[r])
            /\ ret[r].errored = (failedAt[r] # "none")
            /\ ~ret[r].errored =>
                  {"language", "intents", "intent", "entities", "slots"}
                     \subseteq DOMAIN ret[r]

\* the slot extraction raised: language and intent are there, slots is not
C2_Witness ==
    \E r \in Requests :
        /\ exPc[r] = "resolved"
        /\ failedAt[r] = "slots"
        /\ ret[r].errored
        /\ ret[r].language = Language
        /\ ret[r].intent.name = "greet"
        /\ "slots" \notin DOMAIN ret[r]

\* C3: whenever a step raised during an attempt and fewer than max_tries
\* attempts were made for the request, the whole pipeline is invoked again.
C3_RetriedWhileTriesLeft ==
    [][ \A r \in Requests :
           (exPc[r] = "resolved" /\ failedAt[r] # "none" /\ tries[r] < MaxTries
              /\ exPc'[r] # exPc[r])
           => (exPc'[r] = "language" /\ tries'[r] = tries[r] + 1) ]_vars

\* C4: when modelExists answered true, the sync never calls the training
\* backend nor persistModel, it reads the stored model, and when that read
\* resolves it calls loadModel with the same fingerprint, which becomes the
\* classifier's model id when the load returns (a load that raises makes the
\* sync raise).
C4_LoadsInsteadOfTraining ==
    /\ [](\A f \in SyncFrames :
             Logged(f, "exists") =>
                /\ ~Logged(f, "train")
                /\ ~Logged(f, "persistModel")
                /\ Logged(f, "getModelAsBuffer")
                /\ syncPc[f] \in {"getModel", "loadReturned", "loadRaised", "slotTrain",
                                  "returned", "raised"}
                /\ syncPc[f] \in {"loadReturned", "slotTrain", "returned"} =>
                      \E i \in 1..Len(syncLog[f]) :
                          syncLog[f][i] = Called("loadModel", 0, modelHash[f]))
    /\ [][ \A f \in SyncFrames :
              (syncPc[f] = "getModel" /\ syncPc'[f] = "loadReturned") =>
                 /\ modelHash[f] = _getIntentsHash(syncIntents[f])
                 /\ currentModelId'[EngineOf(f)] = modelHash[f] ]_vars

\* a sync a user made has found the model of the stored intents, has loaded
\* it and has returned
C4_Witness ==
    \E f \in ApiCalls :
        /\ syncPc[f] = "returned"
        /\ Logged(f, "exists")
        /\ Logged(f, "loadModel")
        /\ modelHash[f] = _getIntentsHash(syncIntents[f])
        /\ currentModelId[callee[f]] = modelHash[f]

\* some step of the sync of frame f has raised
SomeRaised(f) ==
    \E op \in {"trainRaised", "readRaised", "persistRaised", "buildRaised",
               "slotTrainRaised"} : Logged(f, op)

\* a sync that found no model and in which no step raised, past the
\* persisting of the model
TrainedAndPersisted(f) ==
    /\ syncPc[f] \in {"trainReturned", "slotTrain", "returned"}
    /\ Logged(f, "missing")
    /\ ~SomeRaised(f)

\* C5 as stated: such a sync trains, persists under {timestamp}__{fingerprint}.bin
\* and then calls loadModel with the fingerprint.
C5_TrainPersistThenLoad ==
    \A f \in SyncFrames :
        (TrainedAndPersisted(f) /\ syncPc[f] = "returned") =>
            \E i, j, k \in 1..Len(syncLog[f]) :
                /\ i < j /\ j < k
                /\ syncLog[f][i] = Called("train", 0, modelHash[f])
                /\ syncLog[f][j].op = "persistModel" /\ syncLog[f][j].hash = modelHash[f]
                /\ syncLog[f][k] = Called("loadModel", 0, modelHash[f])

\* C5 amended: such a sync trains the intent model with the fingerprint of the
\* intents it read, then persists the artifact under {timestamp}__{fingerprint}.bin,
\* and does not call loadModel (nor read a stored model): the next call it
\* makes is the training of the slot extractor.
C5_TrainThenPersist ==
    \A f \in SyncFrames :
        TrainedAndPersisted(f) =>
            /\ modelHash[f] = _getIntentsHash(syncIntents[f])
            /\ \E i, j \in 1..Len(syncLog[f]) :
                  /\ i < j
                  /\ syncLog[f][i] = Called("train", 0, modelHash[f])
                  /\ syncLog[f][j].op = "persistModel"
                  /\ syncLog[f][j].hash = modelHash[f]
                  /\ syncLog[f][j].ts > 0
                  /\ [ts |-> syncLog[f][j].ts, hash |-> modelHash[f]] \in models
                  /\ IF j = Len(syncLog[f])
                     THEN syncPc[f] = "trainReturned"
                     ELSE syncLog[f][j + 1] = CallSlotTrain
            /\ ~Logged(f, "loadModel")
            /\ ~Logged(f, "getModelAsBuffer")

\* a sync of the two stored intents has trained, persisted and returned
C5_Witness ==
    \E f \in SyncFrames :
        /\ TrainedAndPersisted(f)
        /\ syncPc[f] = "returned"
        /\ Len(syncIntents[f]) = 2
        /\ \E m \in models : m.hash = modelHash[f] /\ m.ts > 0

\* C6: checkSyncNeeded returns true exactly when the intents it has read are
\* not empty and the classifier's model id differs from their fingerprint;
\* for no intents it returns false whatever the model id.
C6_NeedsSync ==
    /\ [](\A f \in SyncFrames :
             (syncPc[f] = "csReturned" /\ syncIntents[f] = <<>>) => ~needsSync[f])
    /\ [][ \A f \in SyncFrames :
              (syncPc[f] = "csGetIntents" /\ syncPc'[f] = "csReturned") =>
                 /\ syncIntents'[f] = intents
                 /\ needsSync'[f] =
                       (intents # <<>>
                          /\ currentModelId[EngineOf(f)] # _getIntentsHash(intents)) ]_vars

\* no intents, a classifier that holds another model than that of no
\* intents, and the answer false
C6_Witness ==
    \E f \in ApiCalls :
        /\ syncPc[f] = "csReturned"
        /\ syncIntents[f] = <<>>
        /\ currentModelId[callee[f]] # _getIntentsHash(<<>>)
        /\ currentModelId[callee[f]] # Undefined
        /\ ~needsSync[f]

\* C7: when the training of the intent model raised, the sync goes on to the
\* slot extractor and returns, it does not call persistModel, and the
\* catching step leaves the classifier's model id and the persisted models as
\* they were: the id is the one of before the sync unless another sync of the
\* engine ran meanwhile.
C7_TrainingFailureCaught ==
    /\ [](\A f \in SyncFrames :
             Logged(f, "trainRaised") =>
                /\ syncPc[f] \in {"trainReturned", "slotTrain", "returned"}
                /\ ~Logged(f, "persistModel")
                /\ alone[f] => currentModelId[EngineOf(f)] = idBefore[f])
    /\ [][ \A f \in SyncFrames :
              (syncPc[f] = "train" /\ syncPc'[f] # "train"
                 /\ syncLog'[f][Len(syncLog'[f])].op = "trainRaised") =>
                 /\ currentModelId' = currentModelId
                 /\ models' = models ]_vars

\* a sync whose training raised has returned, the classifier still on the
\* model it had loaded before
C7_Witness ==
    \E f \in ApiCalls :
        /\ Logged(f, "trainRaised")
        /\ syncPc[f] = "returned"
        /\ currentModelId[callee[f]] = idBefore[f]
        /\ idBefore[f] # Undefined

\* the selection function has been applied
Selected == selResult # Pending

\* C8: when some prediction has a confidence >= the threshold, the first of
\* them in input order is returned, whatever the others (no sorting).
C8_FirstAboveThreshold ==
    (Selected /\ \E i \in 1..Len(selIntents) : selIntents[i].confidence >= selThreshold)
    => \E i \in 1..Len(selIntents) :
          /\ selResult = selIntents[i]
          /\ selIntents[i].confidence >= selThreshold
          /\ \A j \in 1..(i - 1) : selIntents[j].confidence < selThreshold

\* [{greet, 0.9}, {bye, 0.4}] with threshold 0.7 gives {greet, 0.9}
C8_Witness ==
    /\ selIntents = <<[name |-> "greet", confidence |-> 90],
                      [name |-> "bye", confidence |-> 40]>>
    /\ selThreshold = 70
    /\ selResult = [name |-> "greet", confidence |-> 90]

\* C9: for the empty list the selection is {name: "none", confidence: 1.0},
\* for every threshold and every multiplier.
C9_EmptyGivesNone ==
    (Selected /\ selIntents = <<>>) => selResult = [name |-> "none", confidence |-> 100]

\* the empty list with threshold 0.99 and multiplier 1
C9_Witness ==
    /\ selIntents = <<>>
    /\ selThreshold = 99
    /\ selStd = 1
    /\ selResult = [name |-> "none", confidence |-> 100]

\* n times the mean of the confidences of selIntents
RECURSIVE ConfidenceTotal(_)
ConfidenceTotal(k) == IF k = 0 THEN 0 ELSE selIntents[k].confidence + ConfidenceTotal(k - 1)

\* n^3 times the population variance of the confidences of selIntents:
\* the sum of the squares of n * (confidence - mean)
RECURSIVE SquaredDeviations(_)
SquaredDeviations(k) ==
    IF k = 0 THEN 0
    ELSE (Len(selIntents) * selIntents[k].confidence - ConfidenceTotal(Len(selIntents))) ^ 2
         + SquaredDeviations(k - 1)

\* confidence >= mu + selStd * stderr with stderr = population_std_dev / sqrt(n):
\* (confidence - mu)^2 >= selStd^2 * variance / n and confidence >= mu, every
\* term scaled by n^4
IsOutlier(i) ==
    LET n == Len(selIntents)
        dev == n * selIntents[i].confidence - ConfidenceTotal(n)
    IN  dev >= 0 /\ n ^ 2 * dev ^ 2 >= selStd ^ 2 * SquaredDeviations(n)

\* C10: for a non-empty list with no confidence >= the threshold, the
\* selection is the first prediction in input order with
\* confidence >= mu + stdDevMultiplier * stderr, and the "none" sentinel when
\* there is none; [{a,0.30},{b,0.35},{c,0.32}] with threshold 0.99 and
\* multiplier 3 gives the sentinel.
C10_OutlierFallback ==
    (Selected /\ selIntents # <<>>
       /\ \A i \in 1..Len(selIntents) : selIntents[i].confidence < selThreshold)
    => /\ (\E i \in 1..Len(selIntents) : IsOutlier(i)) =>
             \E i \in 1..Len(selIntents) :
                 /\ selResult = selIntents[i]
                 /\ IsOutlier(i)
                 /\ \A j \in 1..(i - 1) : ~IsOutlier(j)
       /\ ~(\E i \in 1..Len(selIntents) : IsOutlier(i)) =>
             selResult = [name |-> "none", confidence |-> 100]
       /\ ( /\ selIntents = <<[name |-> "a", confidence |-> 30],
                              [name |-> "b", confidence |-> 35],
                              [name |-> "c", confidence |-> 32]>>
            /\ selThreshold = 99
            /\ selStd = 3 ) => selResult = [name |-> "none", confidence |-> 100]

\* C11: once init has returned, the engine's threshold lies in [0, 1]; it is
\* the configured value when that is a number of [0, 1], 0 and 1 included,
\* and 0.7 when the configured value is absent, NaN, below 0 or above 1.
C11_TresholdClamped ==
    \A m \in Mounts :
        initPc[m] = "done" =>
            /\ confidenceTreshold[m] >= 0
            /\ confidenceTreshold[m] <= 100
            /\ configTreshold \in 0..100 => confidenceTreshold[m] = configTreshold
            /\ (configTreshold \in {NaN, Absent} \/ configTreshold < 0
                  \/ configTreshold > 100)
                  => confidenceTreshold[m] = 70

\* a bot configured with 1.5 whose engine has run its init: threshold 0.7
C11_Witness ==
    \E m \in Mounts :
        /\ initPc[m] = "done"
        /\ configTreshold = 150
        /\ confidenceTreshold[m] = 70

\* C12: once an onBotUnmount has completed, the registry holds no engine for
\* the bot until an onBotMount is called for it.
C12_EmptyAfterUnmount == sinceUnmount => nluByBot = NoEngine

\* the calls of slotExtractor.train the sync of frame f has made
SlotTrainCalls(f) == {i \in 1..Len(syncLog[f]) : syncLog[f][i] = CallSlotTrain}

\* the sync of frame f has come to its intent-model step (_loadModel or _trainModel)
IntentModelStep(f) == Logged(f, "getModelAsBuffer") \/ Logged(f, "train")

\* C13: a sync that came to its intent-model step and has ended has called
\* the training of the slot extractor exactly once, after that step, whether
\* the model was loaded or trained, the training failed, or the load failed.
C13_SlotTrainAlways ==
    \A f \in SyncFrames :
        (syncPc[f] \in {"returned", "raised"} /\ IntentModelStep(f)) =>
            /\ Cardinality(SlotTrainCalls(f)) = 1
            /\ \A i \in SlotTrainCalls(f) : \A j \in 1..Len(syncLog[f]) :
                  syncLog[f][j].op \in {"getModelAsBuffer", "loadModel", "train",
                                        "persistModel"}
                     => j < i

\* the rebuild of the training set or the training of the slot extractor
\* raised in the sync of frame f
SlotRaised(f) == Logged(f, "buildRaised") \/ Logged(f, "slotTrainRaised")

\* the model id the intent-model step of the sync of frame f leaves in the
\* classifier: the fingerprint once a model was loaded or trained, the id of
\* before the sync when the training raised
Established(f) ==
    IF Logged(f, "trainRaised") THEN idBefore[f] ELSE modelHash[f]

\* C14: when the rebuild of the training set or the training of the slot
\* extractor raised, the sync has returned normally, it has called that
\* training once at most and not again after the raise, and the raising step
\* leaves the classifier's model id as it was: the id is the one the
\* intent-model step left unless another sync of the engine ran meanwhile.
C14_SlotFailureCaught ==
    /\ [](\A f \in SyncFrames :
             SlotRaised(f) =>
                /\ syncPc[f] = "returned"
                /\ Cardinality(SlotTrainCalls(f))
                      = (IF Logged(f, "slotTrainRaised") THEN 1 ELSE 0)
                /\ Cardinality({i \in 1..Len(syncLog[f]) :
                      syncLog[f][i].op \in {"buildRaised", "slotTrainRaised"}}) = 1
                /\ LoggedLast(f, "buildRaised") \/ LoggedLast(f, "slotTrainRaised")
                /\ alone[f] => currentModelId[EngineOf(f)] = Established(f))
    /\ [][ \A f \in SyncFrames :
              (syncPc[f] \in {"loadReturned", "trainReturned", "slotTrain"}
                 /\ Len(syncLog'[f]) = Len(syncLog[f]) + 1
                 /\ syncLog'[f][Len(syncLog'[f])].op \in {"buildRaised", "slotTrainRaised"}) =>
                 /\ syncPc'[f] = "returned"
                 /\ currentModelId' = currentModelId
                 /\ slotModel' = slotModel ]_vars

\* two syncs have returned on the registered engine: one loaded the stored
\* model and its slot training raised, the rebuild of the training set raised
\* in the other; the classifier is on the loaded model
C14_Witness ==
    \E f, g \in ApiCalls :
        /\ f # g
        /\ Logged(f, "slotTrainRaised")
        /\ Logged(f, "loadModel")
        /\ syncPc[f] = "returned"
        /\ currentModelId[callee[f]] = modelHash[f]
        /\ currentModelId[callee[f]] # idBefore[f]
        /\ Logged(g, "buildRaised")
        /\ syncPc[g] = "returned"

\* the backends of one attempt, in the order _extract awaits them: language
\* identification, intent prediction, entity extraction (the custom entity
\* definitions, then the system entities), slot extraction (the definition of
\* the intent, then the slots)
BackendOrder ==
    <<"identify", "predict", "getCustomEntities", "systemEntities", "getIntent",
      "extractSlots">>

\* C15: within one attempt the backends are called in the order language
\* identification, intent prediction, entity extraction, slot extraction,
\* each one only when the one before it has returned, never two at once; when
\* a step raises no backend is called after it in that attempt.
C15_BackendsInOrder ==
    \A r \in Requests :
        /\ Len(exLog[r]) <= 2 * Len(BackendOrder)
        /\ \A i \in 1..Len(exLog[r]) :
              IF i % 2 = 1
              THEN exLog[r][i] = BackendCall(BackendOrder[(i + 1) \div 2])
              ELSE /\ exLog[r][i].op = exLog[r][i - 1].op
                   /\ exLog[r][i].ev \in {"return", "raise"}
        /\ \A i \in 1..Len(exLog[r]) : exLog[r][i].ev = "raise" => i = Len(exLog[r])
        /\ exPc[r] \in {"resolved", "entities", "entitiesRaised"} =>
              exLog[r][Len(exLog[r])].ev # "call"
        /\ (exPc[r] = "resolved" /\ failedAt[r] = "none") =>
              Len(exLog[r]) = 2 * Len(BackendOrder)

\* the system entity extraction raised: four backends were called, one after
\* the other, and none after it
C15_Witness ==
    \E r \in Requests :
        /\ exPc[r] = "resolved"
        /\ failedAt[r] = "entities"
        /\ Len(exLog[r]) = 8
        /\ exLog[r][8] = BackendRaise("systemEntities")
        /\ exLog[r][7] = BackendCall("systemEntities")
        /\ exLog[r][6] = BackendReturn("getCustomEntities")

\* C16: a step of extract, whether it resolves or raises, leaves the
\* classifier's model id, the slot extractor's model, the persisted models
\* and the registry as they are; the models of an engine change in steps of
\* its syncs only, and the registry in steps of onBotMount and onBotUnmount only.
C16_ExtractFrame ==
    [][ /\ \A r \in Requests :
              exPc'[r] # exPc[r] => UNCHANGED <<currentModelId, slotModel, models, nluByBot>>
        /\ \A e \in Mounts :
              currentModelId'[e] # currentModelId[e] =>
                 \E f \in SyncFrames :
                     /\ EngineOf(f) = e
                     /\ syncPc[f] \in {"getModel", "train"}
                     /\ syncPc'[f] # syncPc[f]
        /\ \A e \in Mounts :
              slotModel'[e] # slotModel[e] =>
                 \E f \in SyncFrames :
                     /\ EngineOf(f) = e
                     /\ syncPc[f] = "slotTrain"
                     /\ syncPc'[f] # syncPc[f]
        /\ models' # models =>
              \E f \in SyncFrames : syncPc[f] = "persist" /\ syncPc'[f] # syncPc[f]
        /\ nluByBot' # nluByBot =>
              \/ \E m \in Mounts : mountPc[m] = "init" /\ mountPc'[m] = "returned"
              \/ nluByBot' = NoEngine /\ sinceUnmount' ]_vars

\* a request whose intent prediction raised has resolved on the registered
\* engine, which holds its models as before
C16_Witness ==
    \E r \in Requests :
        /\ exPc[r] = "resolved"
        /\ failedAt[r] = "intents"
        /\ nluByBot = exOn[r]
        /\ currentModelId[exOn[r]] = _getIntentsHash(<<GreetDef, ByeDef>>)
        /\ slotModel[exOn[r]] # <<>>
        /\ models # {}
        /\ \A f \in SyncFrames : syncPc[f] = "idle"

\* C17: nothing of a sync keeps a request from being made or from going on:
\* extract can be called on the registered engine whenever a frame is free
\* for the request, and every step of a request can be taken, wherever the
\* syncs are.
C17_NoMutualExclusion ==
    /\ (nluByBot # NoEngine /\ \E r \in Requests : exPc[r] = "idle")
          => ENABLED (\E r \in Requests : Extract(r))
    /\ \A r \in Requests :
          /\ exPc[r] = "language" => ENABLED Identify(r)
          /\ exPc[r] = "intents" => ENABLED Predict(r)
          /\ exPc[r] = "customEntities" => ENABLED GetCustomEntities(r)
          /\ exPc[r] = "systemEntities" => ENABLED ExtractSystemEntities(r)
          /\ exPc[r] \in {"entities", "entitiesRaised"} => ENABLED AfterExtractEntities(r)
          /\ exPc[r] = "getIntent" => ENABLED LookupIntent(r)
          /\ exPc[r] = "slots" => ENABLED ExtractSlotsStep(r)
          /\ exPc[r] \in {"resolved", "rejected"} => ENABLED AttemptSettled(r)

\* a request made while a sync of its engine was suspended has resolved with
\* all its steps done while that sync is still suspended in the training; its
\* intent prediction ran on the model the classifier held before the sync,
\* which is not the model of the stored intents
C17_Witness ==
    \E r \in Requests, f \in SyncFrames :
        /\ f \in overlap[r]
        /\ EngineOf(f) = exOn[r]
        /\ exPc[r] = "resolved"
        /\ failedAt[r] = "none"
        /\ ~ret[r].errored
        /\ syncPc[f] = "train"
        /\ intents # <<>>
        /\ currentModelId[exOn[r]] = idBefore[f]
        /\ currentModelId[exOn[r]] # _getIntentsHash(intents)

\* the sync of frame f, of stored intents, has returned normally and the
\* stored intents are the ones it read
ReturnedInStep(f) ==
    syncPc[f] = "returned" /\ syncIntents[f] # <<>> /\ intents = syncIntents[f]

\* C18 as stated: then the classifier's model id is the fingerprint of the
\* intents (a checkSyncNeeded that follows returns false), on the load path,
\* the train path and the caught-training-failure path alike.
C18_SyncLeavesInSync ==
    \A f \in SyncFrames :
        ReturnedInStep(f) => currentModelId[EngineOf(f)] = _getIntentsHash(intents)

\* C18 amended: then, when no other sync of the engine ran meanwhile, the
\* classifier's model id is the fingerprint of the intents when the sync
\* loaded the stored model and when its training succeeded (whatever became
\* of the persisting); when the training raised and was caught, the model id
\* is the one of before the sync, and a checkSyncNeeded that follows returns
\* true unless that id already was the fingerprint.
C18_InSyncUnlessTrainingFailed ==
    \A f \in SyncFrames :
        (ReturnedInStep(f) /\ alone[f]) =>
            /\ (Logged(f, "loadModel") \/ (Logged(f, "train") /\ ~Logged(f, "trainRaised")))
                  => /\ currentModelId[EngineOf(f)] = _getIntentsHash(intents)
                     /\ ~checkSyncNeededResult(intents, currentModelId[EngineOf(f)])
            /\ Logged(f, "trainRaised")
                  => /\ currentModelId[EngineOf(f)] = idBefore[f]
                     /\ checkSyncNeededResult(intents, currentModelId[EngineOf(f)])
                          = (idBefore[f] # _getIntentsHash(intents))
            /\ Logged(f, "loadModel") \/ Logged(f, "train")

\* a sync a user made, the only one of the engine, whose training raised has
\* returned normally over unchanged intents, and the engine still needs a sync
C18_Witness ==
    \E f \in ApiCalls :
        /\ ReturnedInStep(f)
        /\ alone[f]
        /\ Logged(f, "trainRaised")
        /\ checkSyncNeededResult(intents, currentModelId[callee[f]])
        /\ nluByBot = callee[f]

\* C19: an engine the registry holds has run its init to its normal return:
\* its threshold is clamped into [0, 1] and its sync check has returned (init
\* returns from the check that answered false, or from the sync that followed
\* the check); when init raises, onBotMount registers nothing and leaves the
\* registry as it was, the engine an earlier onBotMount registered included.
C19_RegisteredAreInitialised ==
    /\ [](\A m \in Mounts :
             /\ nluByBot = m =>
                   /\ initPc[m] = "done"
                   /\ confidenceTreshold[m] \in 0..100
                   /\ mountPc[m] = "returned"
             /\ mountPc[m] \in {"new", "config", "init", "raised"} => nluByBot # m)
    /\ [][ \A m \in Mounts :
              /\ (initPc[m] # "done" /\ initPc'[m] = "done") =>
                    \/ initPc[m] = "check" /\ syncPc[m] = "csReturned" /\ ~needsSync[m]
                    \/ initPc[m] = "sync" /\ syncPc[m] = "returned"
              /\ (mountPc[m] = "init" /\ initPc[m] = "raised" /\ mountPc'[m] # "init") =>
                    /\ nluByBot' = nluByBot
                    /\ mountPc'[m] = "raised" ]_vars

\* the init of a second engine has raised and its onBotMount has ended: the
\* registry still holds the engine of the earlier onBotMount
C19_Witness ==
    /\ nluByBot = MountOrder[1]
    /\ initPc[MountOrder[1]] = "done"
    /\ initPc[MountOrder[2]] = "raised"
    /\ mountPc[MountOrder[2]] = "raised"

\* C20: for a list of one prediction the selection is that prediction, for
\* every threshold and every multiplier, and never the "none" sentinel.
C20_SingleIsSelected ==
    (Selected /\ Len(selIntents) = 1) =>
        /\ selResult = selIntents[1]
        /\ selResult.name # "none"

\* one prediction of confidence 0.30 under the threshold 0.99 and the
\* multiplier 3 is selected
C20_Witness ==
    /\ selIntents = <<[name |-> "a", confidence |-> 30]>>
    /\ selThreshold = 99
    /\ selStd = 3
    /\ selResult = [name |-> "a", confidence |-> 30]
====
